---- MODULE Spec2Model ----
(***************************************************************************)
(* Model of the progress tracker (src/scr/App.tsx, src/scr/types.ts): the  *)
(* active tracker, the history, the append-only logs, and the export /     *)
(* import of the whole dataset through a file.                             *)
(*                                                                         *)
(* JavaScript values are modelled as follows.  null and undefined are the  *)
(* records NULL and UNDEFINED; a nullable number is NULL or Num(n); a key  *)
(* missing from a JSON document is ABSENT.  A string the code parses or    *)
(* trims (the form fields) is a sequence of one-character strings.         *)
(***************************************************************************)
EXTENDS Integers, Sequences, FiniteSets, TLC

\* ---------------------------------------------------------------- bounds
\* uid() is called at most MaxUid times in a run.
MaxUid == 6

\* ---------------------------------------------------------------- values
NULL == [tag |-> "null"]
UNDEFINED == [tag |-> "undefined"]
ABSENT == [tag |-> "absent"]
NaN == [tag |-> "NaN"]
Num(n) == [tag |-> "number", n |-> n]
Arr(items) == [tag |-> "array", items |-> items]

\* JavaScript truthiness, for the values the model uses: !v
Falsy(v) == v = NULL \/ v = UNDEFINED \/ v = NaN \/ v = Num(0)

\* a ?? b
Nullish(v) == v = NULL \/ v = UNDEFINED

\* ---------------------------------------------------------------- strings
Digits == {"0", "1", "2", "3"}
DigitVal(c) == CASE c = "0" -> 0 [] c = "1" -> 1 [] c = "2" -> 2 [] c = "3" -> 3
IsDigit(c) == c \in Digits
IsSpace(c) == c = " "

\* e.target.value.replace(/\D/g, '')
stripNonDigits(s) == SelectSeq(s, IsDigit)

RECURSIVE dropSpaces(_)
dropSpaces(s) == IF s # <<>> /\ IsSpace(Head(s)) THEN dropSpaces(Tail(s)) ELSE s

RECURSIVE dropTrailingSpaces(_)
dropTrailingSpaces(s) ==
    IF s # <<>> /\ IsSpace(s[Len(s)])
    THEN dropTrailingSpaces(SubSeq(s, 1, Len(s) - 1))
    ELSE s

\* String.prototype.trim
trim(s) == dropTrailingSpaces(dropSpaces(s))

RECURSIVE digitPrefix(_)
digitPrefix(s) ==
    IF s # <<>> /\ IsDigit(Head(s)) THEN <<Head(s)>> \o digitPrefix(Tail(s)) ELSE <<>>

RECURSIVE decimal(_)
decimal(ds) ==
    IF ds = <<>> THEN 0
    ELSE 10 * decimal(SubSeq(ds, 1, Len(ds) - 1)) + DigitVal(ds[Len(ds)])

\* parseInt(s): leading white space and one sign are skipped, then the
\* longest run of digits is read; NaN when there is none.
parseInt(s) ==
    LET t == dropSpaces(s)
        neg == t # <<>> /\ Head(t) = "-"
        u == IF t # <<>> /\ Head(t) \in {"-", "+"} THEN Tail(t) ELSE t
        ds == digitPrefix(u)
    IN  IF ds = <<>> THEN NaN
        ELSE Num(IF neg THEN 0 - decimal(ds) ELSE decimal(ds))

\* What the user can type into the target field and into the label field.
TargetInputs == { <<>>, <<"0">>, <<"0", "2">>, <<"-", "1">> }
LabelInputs == { <<>>, <<" ">>, <<" ", "A", " ">> }

\* ---------------------------------------------------------------- state
VARIABLES
    activeTracker,  \* Tracker | null (undefined after an import without the key)
    history,        \* Tracker[]
    error,          \* ImportModal's error message
    reading,        \* content of the file a FileReader is reading, ABSENT when none
    nextUid,        \* the next value uid() returns
    pt_active,      \* localStorage item 'pt_active'
    pt_history      \* localStorage item 'pt_history'

vars == <<activeTracker, history, error, reading, nextUid, pt_active, pt_history>>

\* ---------------------------------------------------------------- engine
\* The text of a log entry, by its parts.
Detail(text, lbl, current, target) ==
    [text |-> text, label |-> lbl, current |-> current, target |-> target]

\* Date.now(): a logical clock, which has advanced whenever uid() has been called.
DateNow == nextUid

\* addLog that puts the new entry first
addLog_Prepends(tracker, action, detail, id) ==
    [tracker EXCEPT !.logs =
        <<[id |-> id, timestamp |-> DateNow, action |-> action, detail |-> detail]>> \o @]

\* addLog(tracker, action, detail), id being the uid() it draws
addLog(tracker, action, detail, id) ==
    [tracker EXCEPT !.logs =
        Append(@, [id |-> id, timestamp |-> DateNow, action |-> action, detail |-> detail])]

Placeholder == <<"T", "r", "a", "c", "k", "e", "r">>

\* ---------------------------------------------------------------- persistence
\* A localStorage item: a text that is JSON for a value, or a text that is no
\* JSON; a key that is not in the store reads as ABSENT (getItem gives null).
Item(json, value) == [tag |-> "item", json |-> json, value |-> value]

\* What the user, the browser or another page can have done to a key between
\* two runs of the program: nothing, removed it, or left a text that is no JSON.
StoreFaults == {"kept", "absent", "garbage"}
getItem(item, fault) ==
    CASE fault = "kept" -> item
      [] fault = "absent" -> ABSENT
      [] fault = "garbage" -> Item(FALSE, NULL)

\* localStorage.setItem(key, JSON.stringify(state)): JSON.stringify(undefined)
\* is undefined, which setItem stores as the text 'undefined', which is no JSON.
setItem(state) == IF state = UNDEFINED THEN Item(FALSE, UNDEFINED) ELSE Item(TRUE, state)

\* usePersistedState's initial state that never finds its key
usePersistedState_IgnoresStore(raw, fallback) == fallback

\* usePersistedState's initial state: raw ? JSON.parse(raw) : fallback, and
\* fallback when JSON.parse throws.
usePersistedState(raw, fallback) ==
    IF raw = ABSENT THEN fallback
    ELSE IF ~raw.json THEN fallback
    ELSE raw.value

\* usePersistedState's effect, which runs after every render that changed the
\* state: both keys hold the state the step leaves.
useEffect ==
    /\ pt_active' = setItem(activeTracker')
    /\ pt_history' = setItem(Arr(history'))

\* The program starts on an empty store; the first effect has written both keys.
Init ==
    /\ activeTracker = NULL
    /\ history = <<>>
    /\ error = ""
    /\ reading = ABSENT
    /\ nextUid = 1
    /\ pt_active = setItem(NULL)
    /\ pt_history = setItem(Arr(<<>>))

\* The page is loaded again: App's two usePersistedState calls read the store,
\* every other state is new, and a read in flight is gone with the old page.
restart(faultActive, faultHistory) ==
    /\ activeTracker' = usePersistedState(getItem(pt_active, faultActive), NULL)
    /\ history' = LET h == usePersistedState(getItem(pt_history, faultHistory), Arr(<<>>))
                  IN  h.items
    /\ error' = ""
    /\ reading' = ABSENT
    /\ UNCHANGED nextUid

\* handleCreate that archives the tracker it replaces
handleCreate_ArchivesOld(labelInput, targetInput) ==
    LET label == labelInput
        targetStr == stripNonDigits(targetInput)
        target == parseInt(targetStr)
    IN  IF Falsy(target) \/ target.n < 1
        THEN UNCHANGED vars
        ELSE /\ nextUid + 1 <= MaxUid
             /\ LET lbl == IF trim(label) = <<>> THEN Placeholder ELSE trim(label)
                    t == [id |-> nextUid, label |-> lbl, target |-> target.n, current |-> 0,
                          createdAt |-> DateNow, completedAt |-> NULL, archivedAt |-> NULL,
                          logs |-> <<>>]
                IN  activeTracker' =
                        addLog(t, "created", Detail("Created", lbl, 0, target.n), nextUid + 1)
             /\ history' = IF Falsy(activeTracker)
                           THEN history
                           ELSE <<[activeTracker EXCEPT !.archivedAt = Num(DateNow)]>> \o history
             /\ nextUid' = nextUid + 2
             /\ UNCHANGED <<error, reading>>

\* handleCreate whose label is label || 'Tracker', without trim
handleCreate_NoTrim(labelInput, targetInput) ==
    LET label == labelInput
        targetStr == stripNonDigits(targetInput)
        target == parseInt(targetStr)
    IN  IF Falsy(target) \/ target.n < 1
        THEN UNCHANGED vars
        ELSE /\ nextUid + 1 <= MaxUid
             /\ LET lbl == IF label = <<>> THEN Placeholder ELSE label
                    t == [id |-> nextUid, label |-> lbl, target |-> target.n, current |-> 0,
                          createdAt |-> DateNow, completedAt |-> NULL, archivedAt |-> NULL,
                          logs |-> <<>>]
                IN  activeTracker' =
                        addLog(t, "created", Detail("Created", lbl, 0, target.n), nextUid + 1)
             /\ nextUid' = nextUid + 2
             /\ UNCHANGED <<history, error, reading>>

\* handleCreate, with the two form fields as the user left them
handleCreate(labelInput, targetInput) ==
    LET label == labelInput
        targetStr == stripNonDigits(targetInput)
        target == parseInt(targetStr)
    IN  IF Falsy(target) \/ target.n < 1
        THEN UNCHANGED vars
        ELSE /\ nextUid + 1 <= MaxUid
             /\ LET lbl == IF trim(label) = <<>> THEN Placeholder ELSE trim(label)
                    t == [id |-> nextUid, label |-> lbl, target |-> target.n, current |-> 0,
                          createdAt |-> DateNow, completedAt |-> NULL, archivedAt |-> NULL,
                          logs |-> <<>>]
                IN  activeTracker' =
                        addLog(t, "created", Detail("Created", lbl, 0, target.n), nextUid + 1)
             /\ nextUid' = nextUid + 2
             /\ UNCHANGED <<history, error, reading>>

\* handleIncrement that works on the tracker of the render before the last
\* increment (a stale closure) instead of the current one
handleIncrement_StaleCopy ==
    LET stale == IF ~Falsy(activeTracker) /\ Len(activeTracker.logs) >= 2
                    /\ activeTracker.logs[Len(activeTracker.logs)].action = "increment"
                 THEN [activeTracker EXCEPT !.current = @ - 1,
                                            !.logs = SubSeq(@, 1, Len(@) - 1)]
                 ELSE activeTracker
    IN  IF Falsy(stale) \/ stale.current >= stale.target
        THEN UNCHANGED vars
        ELSE LET t1 == [stale EXCEPT !.current = @ + 1]
                 t2 == addLog(t1, "increment", Detail("Progress", <<>>, t1.current, t1.target), nextUid)
                 done == t2.current >= t2.target
                 t3 == [t2 EXCEPT !.completedAt = Num(DateNow)]
                 t4 == addLog(t3, "completed", Detail("Completed", <<>>, 0, 0), nextUid + 1)
             IN  /\ nextUid + (IF done THEN 1 ELSE 0) <= MaxUid
                 /\ activeTracker' = IF done THEN t4 ELSE t2
                 /\ nextUid' = nextUid + (IF done THEN 2 ELSE 1)
                 /\ UNCHANGED <<history, error, reading>>

\* handleIncrement that logs the completion and leaves completedAt alone
handleIncrement_NoCompletedAt ==
    IF Falsy(activeTracker) \/ activeTracker.current >= activeTracker.target
    THEN UNCHANGED vars
    ELSE LET t1 == [activeTracker EXCEPT !.current = @ + 1]
             t2 == addLog(t1, "increment", Detail("Progress", <<>>, t1.current, t1.target), nextUid)
             done == t2.current >= t2.target
             t4 == addLog(t2, "completed", Detail("Completed", <<>>, 0, 0), nextUid + 1)
         IN  /\ nextUid + (IF done THEN 1 ELSE 0) <= MaxUid
             /\ activeTracker' = IF done THEN t4 ELSE t2
             /\ nextUid' = nextUid + (IF done THEN 2 ELSE 1)
             /\ UNCHANGED <<history, error, reading>>

\* handleIncrement with its guard off by one (> for >=)
handleIncrement_GuardOffByOne ==
    IF Falsy(activeTracker) \/ activeTracker.current > activeTracker.target
    THEN UNCHANGED vars
    ELSE LET t1 == [activeTracker EXCEPT !.current = @ + 1]
             t2 == addLog(t1, "increment", Detail("Progress", <<>>, t1.current, t1.target), nextUid)
             done == t2.current >= t2.target
             t3 == [t2 EXCEPT !.completedAt = Num(DateNow)]
             t4 == addLog(t3, "completed", Detail("Completed", <<>>, 0, 0), nextUid + 1)
         IN  /\ nextUid + (IF done THEN 1 ELSE 0) <= MaxUid
             /\ activeTracker' = IF done THEN t4 ELSE t2
             /\ nextUid' = nextUid + (IF done THEN 2 ELSE 1)
             /\ UNCHANGED <<history, error, reading>>

handleIncrement ==
    IF Falsy(activeTracker) \/ activeTracker.current >= activeTracker.target
    THEN UNCHANGED vars
    ELSE LET t1 == [activeTracker EXCEPT !.current = @ + 1]
             t2 == addLog(t1, "increment", Detail("Progress", <<>>, t1.current, t1.target), nextUid)
             done == t2.current >= t2.target
             t3 == [t2 EXCEPT !.completedAt = Num(DateNow)]
             t4 == addLog(t3, "completed", Detail("Completed", <<>>, 0, 0), nextUid + 1)
         IN  /\ nextUid + (IF done THEN 1 ELSE 0) <= MaxUid
             /\ activeTracker' = IF done THEN t4 ELSE t2
             /\ nextUid' = nextUid + (IF done THEN 2 ELSE 1)
             /\ UNCHANGED <<history, error, reading>>

\* handleDecrement that logs its step as an increment
handleDecrement_LogsIncrement ==
    IF Falsy(activeTracker) \/ activeTracker.current <= 0
    THEN UNCHANGED vars
    ELSE LET wasComplete == activeTracker.current >= activeTracker.target
             t1 == [activeTracker EXCEPT
                       !.current = @ - 1,
                       !.completedAt = IF wasComplete THEN NULL ELSE @]
         IN  /\ nextUid <= MaxUid
             /\ activeTracker' =
                    addLog(t1, "increment", Detail("Progress", <<>>, t1.current, t1.target), nextUid)
             /\ nextUid' = nextUid + 1
             /\ UNCHANGED <<history, error, reading>>

\* handleDecrement that tests only for a tracker, not for current <= 0
handleDecrement_NoFloor ==
    IF Falsy(activeTracker)
    THEN UNCHANGED vars
    ELSE LET wasComplete == activeTracker.current >= activeTracker.target
             t1 == [activeTracker EXCEPT
                       !.current = @ - 1,
                       !.completedAt = IF wasComplete THEN NULL ELSE @]
         IN  /\ nextUid <= MaxUid
             /\ activeTracker' =
                    addLog(t1, "decrement", Detail("Progress", <<>>, t1.current, t1.target), nextUid)
             /\ nextUid' = nextUid + 1
             /\ UNCHANGED <<history, error, reading>>

\* handleDecrement that takes the last log entry back instead of adding one
handleDecrement_PopsLog ==
    IF Falsy(activeTracker) \/ activeTracker.current <= 0
    THEN UNCHANGED vars
    ELSE LET wasComplete == activeTracker.current >= activeTracker.target
         IN  /\ nextUid <= MaxUid
             /\ activeTracker' =
                    [activeTracker EXCEPT
                       !.current = @ - 1,
                       !.completedAt = IF wasComplete THEN NULL ELSE @,
                       !.logs = SubSeq(@, 1, Len(@) - 1)]
             /\ nextUid' = nextUid + 1
             /\ UNCHANGED <<history, error, reading>>

\* handleDecrement whose wasComplete is current > target
handleDecrement_StrictWasComplete ==
    IF Falsy(activeTracker) \/ activeTracker.current <= 0
    THEN UNCHANGED vars
    ELSE LET wasComplete == activeTracker.current > activeTracker.target
             t1 == [activeTracker EXCEPT
                       !.current = @ - 1,
                       !.completedAt = IF wasComplete THEN NULL ELSE @]
         IN  /\ nextUid <= MaxUid
             /\ activeTracker' =
                    addLog(t1, "decrement", Detail("Progress", <<>>, t1.current, t1.target), nextUid)
             /\ nextUid' = nextUid + 1
             /\ UNCHANGED <<history, error, reading>>

\* handleDecrement that forgets to clear completedAt
handleDecrement_KeepsCompleted ==
    IF Falsy(activeTracker) \/ activeTracker.current <= 0
    THEN UNCHANGED vars
    ELSE LET t1 == [activeTracker EXCEPT !.current = @ - 1]
         IN  /\ nextUid <= MaxUid
             /\ activeTracker' =
                    addLog(t1, "decrement", Detail("Progress", <<>>, t1.current, t1.target), nextUid)
             /\ nextUid' = nextUid + 1
             /\ UNCHANGED <<history, error, reading>>

handleDecrement ==
    IF Falsy(activeTracker) \/ activeTracker.current <= 0
    THEN UNCHANGED vars
    ELSE LET wasComplete == activeTracker.current >= activeTracker.target
             t1 == [activeTracker EXCEPT
                       !.current = @ - 1,
                       !.completedAt = IF wasComplete THEN NULL ELSE @]
         IN  /\ nextUid <= MaxUid
             /\ activeTracker' =
                    addLog(t1, "decrement", Detail("Progress", <<>>, t1.current, t1.target), nextUid)
             /\ nextUid' = nextUid + 1
             /\ UNCHANGED <<history, error, reading>>

\* handleArchive without its setActiveTracker(null)
handleArchive_KeepsActive ==
    IF Falsy(activeTracker)
    THEN UNCHANGED vars
    ELSE LET t1 == [activeTracker EXCEPT !.archivedAt = Num(DateNow)]
             t2 == addLog(t1, "archived", Detail("Tracker archived", <<>>, 0, 0), nextUid)
         IN  /\ nextUid <= MaxUid
             /\ history' = <<t2>> \o history
             /\ activeTracker' = activeTracker
             /\ nextUid' = nextUid + 1
             /\ UNCHANGED <<error, reading>>

\* handleArchive that stamps every tracker of the history again
handleArchive_StampsAll ==
    IF Falsy(activeTracker)
    THEN UNCHANGED vars
    ELSE LET t1 == [activeTracker EXCEPT !.archivedAt = Num(DateNow)]
             t2 == addLog(t1, "archived", Detail("Tracker archived", <<>>, 0, 0), nextUid)
         IN  /\ nextUid <= MaxUid
             /\ history' = <<t2>> \o [i \in 1..Len(history) |->
                                         [history[i] EXCEPT !.archivedAt = Num(DateNow)]]
             /\ activeTracker' = NULL
             /\ nextUid' = nextUid + 1
             /\ UNCHANGED <<error, reading>>

\* handleArchive that puts the tracker at the end of the history
handleArchive_AtTheEnd ==
    IF Falsy(activeTracker)
    THEN UNCHANGED vars
    ELSE LET t1 == [activeTracker EXCEPT !.archivedAt = Num(DateNow)]
             t2 == addLog(t1, "archived", Detail("Tracker archived", <<>>, 0, 0), nextUid)
         IN  /\ nextUid <= MaxUid
             /\ history' = history \o <<t2>>
             /\ activeTracker' = NULL
             /\ nextUid' = nextUid + 1
             /\ UNCHANGED <<error, reading>>

handleArchive ==
    IF Falsy(activeTracker)
    THEN UNCHANGED vars
    ELSE LET t1 == [activeTracker EXCEPT !.archivedAt = Num(DateNow)]
             t2 == addLog(t1, "archived", Detail("Tracker archived", <<>>, 0, 0), nextUid)
         IN  /\ nextUid <= MaxUid
             /\ history' = <<t2>> \o history
             /\ activeTracker' = NULL
             /\ nextUid' = nextUid + 1
             /\ UNCHANGED <<error, reading>>

\* a removal that stops at the first entry it finds
RECURSIVE filterOut_FirstOnly(_, _)
filterOut_FirstOnly(h, id) ==
    IF h = <<>> THEN <<>>
    ELSE IF Head(h).id # id THEN <<Head(h)>> \o filterOut_FirstOnly(Tail(h), id)
         ELSE Tail(h)

\* h.filter(t => t.id !== id)
RECURSIVE filterOut(_, _)
filterOut(h, id) ==
    IF h = <<>> THEN <<>>
    ELSE IF Head(h).id # id THEN <<Head(h)>> \o filterOut(Tail(h), id)
         ELSE filterOut(Tail(h), id)

handleDeleteHistory(id) ==
    /\ history' = filterOut(history, id)
    /\ UNCHANGED <<activeTracker, error, reading, nextUid>>

\* ---------------------------------------------------------------- codec
\* The file picked for import is one written by hand or the one the program
\* exports in the current state; holding its read back stands for picking it
\* later.
\* A file's content: text that is no JSON, or a JSON object with the three
\* keys of AppData, each of which may be missing (ABSENT).
File(json, version, active, hist) ==
    [json |-> json, version |-> version, activeTracker |-> active, history |-> hist]

\* JSON.stringify that writes an undefined value as null
JSONstringify_UndefinedAsNull(data) ==
    File(TRUE,
         Num(data.version),
         IF data.activeTracker = UNDEFINED THEN NULL ELSE data.activeTracker,
         Arr(data.history))

\* JSON.stringify(data, null, 2): a key whose value is undefined is left out.
JSONstringify(data) ==
    File(TRUE,
         Num(data.version),
         IF data.activeTracker = UNDEFINED THEN ABSENT ELSE data.activeTracker,
         Arr(data.history))

\* Reading a key of a parsed object: a missing key reads as undefined.
Prop(v) == IF v = ABSENT THEN UNDEFINED ELSE v

\* JSON.parse throws on text that is no JSON.
JSONparses(content) == content.json
JSONparse(content) ==
    [version |-> Prop(content.version),
     activeTracker |-> Prop(content.activeTracker),
     history |-> Prop(content.history)]

\* the check of reader.onload that does not look at history
InvalidFormat_HistoryIgnored(parsed) ==
    Falsy(parsed.version) \/ Falsy(parsed.activeTracker)

\* the check of reader.onload without its test of version
InvalidFormat_NoVersionTest(parsed) ==
    Falsy(parsed.activeTracker) /\ Falsy(parsed.history)

\* the check of reader.onload
InvalidFormat(parsed) ==
    Falsy(parsed.version) \/ (Falsy(parsed.activeTracker) /\ Falsy(parsed.history))

\* Files written by hand.
HandLog(id, action) ==
    [id |-> id, timestamp |-> 1, action |-> action, detail |-> Detail("Progress", <<>>, 0, 0)]
HandTracker(id, current, target, logs) ==
    [id |-> id, label |-> <<"H">>, target |-> target, current |-> current, createdAt |-> 1,
     completedAt |-> NULL, archivedAt |-> NULL, logs |-> logs]
HandFiles ==
    << File(FALSE, ABSENT, ABSENT, ABSENT),
       File(TRUE, Num(0), NULL, Arr(<<>>)),
       File(TRUE, Num(1), ABSENT, ABSENT),
       File(TRUE, Num(1), [HandTracker(11, 2, 1, <<>>) EXCEPT !.archivedAt = Num(1)], ABSENT),
       File(TRUE, Num(1), ABSENT,
            Arr(<< HandTracker(12, 0, 1, <<HandLog(14, "created")>>),
                   HandTracker(13, 1, 1, <<>>),
                   HandTracker(12, 1, 1, <<HandLog(15, "created")>>) >>)),
       File(TRUE, ABSENT, NULL, Arr(<<>>)),
       File(TRUE, Num(1), NULL, NULL),
       File(TRUE, Num(1), Num(0), ABSENT) >>

\* The ids a history entry can be deleted by: those of the history, and 0,
\* which is the id of no tracker.
IdInputs(h) == {h[i].id : i \in 1..Len(h)} \cup {0}

\* handleExport: the file it writes. It leaves the program's state alone.
handleExport ==
    JSONstringify([version |-> 1, activeTracker |-> activeTracker, history |-> history])

\* processFile(file): the read is started and completes later.
processFile(content) ==
    /\ reading = ABSENT
    /\ error' = ""
    /\ reading' = content
    /\ UNCHANGED <<activeTracker, history, nextUid>>

\* setActiveTracker(data.activeTracker ?? activeTracker)
importedActive_KeepsOld(data) ==
    IF Nullish(data.activeTracker) THEN activeTracker ELSE data.activeTracker

\* setActiveTracker(data.activeTracker)
importedActive(data) == data.activeTracker

\* setHistory(data.history ?? [])
importedHistory(data) == IF Nullish(data.history) THEN <<>> ELSE data.history.items

\* handleImport without its setHistory
handleImport_ActiveOnly(data) ==
    /\ activeTracker' = importedActive(data)
    /\ history' = history
    /\ error' = ""

\* handleImport(data), as the state it leaves; the dialog is unmounted
handleImport(data) ==
    /\ activeTracker' = importedActive(data)
    /\ history' = importedHistory(data)
    /\ error' = ""

\* reader.onload: the read has completed with the file's whole content
onload ==
    /\ reading # ABSENT
    /\ reading' = ABSENT
    /\ IF JSONparses(reading) /\ ~InvalidFormat(JSONparse(reading))
       THEN /\ handleImport(JSONparse(reading))
            /\ UNCHANGED nextUid
       ELSE /\ error' = "Invalid file"
            /\ UNCHANGED <<activeTracker, history, nextUid>>

\* The read fails: FileReader fires no load event and the code sets no onerror.
readFails ==
    /\ reading # ABSENT
    /\ reading' = ABSENT
    /\ UNCHANGED <<activeTracker, history, error, nextUid>>

\* ---------------------------------------------------------------- system
\* Every event ends with the render of the state it set and with the effect
\* of usePersistedState.
Engine ==
    \/ \E l \in LabelInputs, s \in TargetInputs : handleCreate(l, s) /\ useEffect
    \/ handleIncrement /\ useEffect
    \/ handleDecrement /\ useEffect
    \/ handleArchive /\ useEffect
    \/ \E id \in IdInputs(history) : handleDeleteHistory(id) /\ useEffect

Import ==
    \/ \E i \in 1..Len(HandFiles) : processFile(HandFiles[i]) /\ useEffect
    \/ processFile(handleExport) /\ useEffect
    \/ onload /\ useEffect
    \/ readFails /\ useEffect

Restart == \E fa \in StoreFaults, fh \in StoreFaults : restart(fa, fh) /\ useEffect

Next == Engine \/ Import \/ Restart

\* The whole program.
Spec == Init /\ [][Next]_vars

\* The tracker engine and the history store alone: nothing is imported and
\* the page is not loaded again.
SpecEngine == Init /\ [][Engine]_vars

\* ---------------------------------------------------------------- properties
IsTracker(v) == v # NULL /\ v # UNDEFINED /\ v # ABSENT /\ v # Num(0)

IsPrefix(s, t) == Len(s) <= Len(t) /\ SubSeq(t, 1, Len(s)) = s

\* 0 <= current <= target and target >= 1
TrackerOk(t) == 0 <= t.current /\ t.current <= t.target /\ t.target >= 1

AllOk(a, h) ==
    /\ IsTracker(a) => TrackerOk(a)
    /\ \A i \in 1..Len(h) : TrackerOk(h[i])

\* Every tracker a file holds satisfies the bounds.
FileOk(f) ==
    /\ IsTracker(f.activeTracker) => TrackerOk(f.activeTracker)
    /\ (f.history # ABSENT /\ f.history # NULL) =>
           \A i \in 1..Len(f.history.items) : TrackerOk(f.history.items[i])

\* C1, as claimed: in every reachable state of the whole program, import
\* included, the active tracker and every tracker of the history satisfy
\* 0 <= current <= target and target >= 1.
C1_BoundsAlways == AllOk(activeTracker, history)

\* C1, amended: every step keeps the bounds of the active tracker and of the
\* trackers of the history, unless it is the import of a file that holds a
\* tracker outside the bounds.
C1_BoundsKept ==
    [][(AllOk(activeTracker, history) /\ ~(onload /\ ~FileOk(reading)))
          => AllOk(activeTracker', history')]_vars

\* The active tracker has reached its target of 2 and two trackers are archived.
C1_Witness ==
    /\ IsTracker(activeTracker)
    /\ activeTracker.target = 2
    /\ activeTracker.current = 2
    /\ Len(history) >= 2
    /\ AllOk(activeTracker, history)

\* C2: without import, a tracker's completedAt is non-null exactly when its
\* current equals its target, in the active slot and in the history.
CompletedIffAtTarget(t) == (t.completedAt # NULL) <=> (t.current = t.target)

C2_CompletedIffAtTarget ==
    /\ IsTracker(activeTracker) => CompletedIffAtTarget(activeTracker)
    /\ \A i \in 1..Len(history) : CompletedIffAtTarget(history[i])

\* A tracker that was completed and then decremented: completedAt is null again.
C2_Witness ==
    /\ IsTracker(activeTracker)
    /\ activeTracker.current < activeTracker.target
    /\ activeTracker.completedAt = NULL
    /\ \E i \in 1..Len(activeTracker.logs) : activeTracker.logs[i].action = "completed"

\* C3: an import that fails (the content is no JSON, the version is falsy,
\* or activeTracker and history are both missing) leaves the active tracker
\* and the history as they were.
ImportFailure(f) ==
    \/ ~f.json
    \/ f.version = ABSENT \/ f.version = NULL \/ f.version = Num(0)
    \/ /\ (f.activeTracker = ABSENT \/ f.activeTracker = NULL)
       /\ (f.history = ABSENT \/ f.history = NULL)

C3_FailedImportChangesNothing ==
    [][(onload /\ (error' = "Invalid file" \/ ImportFailure(reading)))
          => (activeTracker' = activeTracker /\ history' = history)]_vars

\* An import has failed while a tracker was active and the history was not empty.
C3_Witness ==
    /\ error = "Invalid file"
    /\ IsTracker(activeTracker)
    /\ history # <<>>

TrackerSeq(a, h) == (IF IsTracker(a) THEN <<a>> ELSE <<>>) \o h

Actions(logs) == [i \in 1..Len(logs) |-> logs[i].action]
Count(logs, action) == Cardinality({i \in 1..Len(logs) : logs[i].action = action})

\* The entries a step has added at the end of a log.
Added(old, new) == SubSeq(new.logs, Len(old.logs) + 1, Len(new.logs))

\* C5: create, increment, decrement and archive only append to the log: the
\* log of the tracker they are given is a prefix of the log of the tracker
\* they produce, and the trackers of the history keep theirs.
C5_Step ==
    /\ ((handleIncrement \/ handleDecrement) /\ IsTracker(activeTracker)) =>
           /\ IsTracker(activeTracker')
           /\ activeTracker'.id = activeTracker.id
           /\ IsPrefix(activeTracker.logs, activeTracker'.logs)
           /\ history' = history
    /\ (handleArchive /\ IsTracker(activeTracker)) =>
           /\ Len(history') = Len(history) + 1
           /\ Head(history').id = activeTracker.id
           /\ IsPrefix(activeTracker.logs, Head(history').logs)
           /\ Len(Head(history').logs) = Len(activeTracker.logs) + 1
           /\ Tail(history') = history
    /\ (activeTracker' # activeTracker
           /\ \E l \in LabelInputs, s \in TargetInputs : handleCreate(l, s)) =>
           /\ history' = history
           /\ Len(activeTracker'.logs) = 1
           /\ \A i \in 1..Len(history) : history[i].id # activeTracker'.id

C5_OnlyAppends == [][C5_Step]_vars

\* An archived tracker with a log of four entries, each added behind the others.
C5_Witness ==
    /\ history # <<>>
    /\ Actions(Head(history).logs) = <<"created", "increment", "completed", "archived">>

\* C6, as claimed: in the whole program, import included, no step makes the
\* log of a tracker id shorter.
LogsNotShorter(old, new) ==
    \A i \in 1..Len(old), j \in 1..Len(new) :
        old[i].id = new[j].id => Len(new[j].logs) >= Len(old[i].logs)

C6_LogNeverShorter ==
    [][LogsNotShorter(TrackerSeq(activeTracker, history),
                      TrackerSeq(activeTracker', history'))]_vars

\* C6, amended: no step other than an import makes the log of a tracker id
\* shorter, and an id that such a step brings into the state is the uid() the
\* step draws, which no tracker of the state carries yet; so that, as long as
\* nothing is imported, the length of a log never falls between any two states
\* of a run.
IdsUsed(trackers) ==
    \A i \in 1..Len(trackers) : trackers[i].id \in 1..MaxUid => trackers[i].id < nextUid

IdsFresh(old, new) ==
    \A j \in 1..Len(new) :
        (\A i \in 1..Len(old) : old[i].id # new[j].id) => new[j].id = nextUid

C6_LogMonotoneWithoutImport ==
    /\ []IdsUsed(TrackerSeq(activeTracker, history))
    /\ [][\/ /\ LogsNotShorter(TrackerSeq(activeTracker, history),
                                TrackerSeq(activeTracker', history'))
             /\ IdsFresh(TrackerSeq(activeTracker, history),
                          TrackerSeq(activeTracker', history'))
          \/ onload]_vars

\* An archived tracker whose log has grown to four entries.
C6_Witness ==
    /\ history # <<>>
    /\ Len(Head(history).logs) = 4
    /\ activeTracker = NULL

\* C7, as claimed: a file is rejected exactly when it is no JSON, its version
\* is falsy or absent, or activeTracker and history are both null or absent.
C7_RejectedIffMissing ==
    [][onload => ((error' = "Invalid file") <=> ImportFailure(reading))]_vars

\* C7, amended: a file is rejected exactly when it is no JSON, its version is
\* falsy or absent, or activeTracker and history are both falsy or absent
\* (null, or another falsy value such as 0).
FalsyInFile(v) == v = ABSENT \/ Falsy(v)

C7_RejectedIffFalsy ==
    [][onload =>
          ((error' = "Invalid file") <=>
              \/ ~reading.json
              \/ FalsyInFile(reading.version)
              \/ FalsyInFile(reading.activeTracker) /\ FalsyInFile(reading.history))]_vars

\* A file with a history and no activeTracker key has been accepted.
C7_Witness ==
    /\ activeTracker = UNDEFINED
    /\ Len(history) = 3
    /\ error = ""
    /\ reading = ABSENT

\* C8, as claimed: after a successful import the active tracker is the
\* file's activeTracker and the history is the file's history.
C8_ReplacedVerbatim ==
    [][(onload /\ error' = "") =>
          /\ activeTracker' = Prop(reading.activeTracker)
          /\ Arr(history') = reading.history]_vars

\* C8, amended: after a successful import the active tracker is the file's
\* activeTracker and the history is the file's history, or empty when the
\* file's history is absent or null; no tracker is validated.
C8_ReplacedWithDefault ==
    [][(onload /\ error' = "") =>
          /\ activeTracker' = Prop(reading.activeTracker)
          /\ history' = IF reading.history = ABSENT \/ reading.history = NULL
                         THEN <<>>
                         ELSE reading.history.items]_vars

\* A tracker with current > target has been imported as it is, and the
\* history, which the file does not hold, is empty.
C8_Witness ==
    /\ IsTracker(activeTracker)
    /\ activeTracker.id = 11
    /\ activeTracker.current > activeTracker.target
    /\ activeTracker.logs = <<>>
    /\ history = <<>>
    /\ reading = ABSENT

\* C9: an increment below the target raises current by one and appends one
\* increment entry; it sets completedAt and appends one completed entry behind
\* it exactly when the new current is the target.  A tracker that was created
\* with target N and incremented N times, never decremented, has the log
\* created, N times increment, completed.
C9_Step ==
    (handleIncrement /\ IsTracker(activeTracker)
        /\ activeTracker.current < activeTracker.target) =>
       /\ IsTracker(activeTracker')
       /\ activeTracker'.current = activeTracker.current + 1
       /\ activeTracker'.target = activeTracker.target
       /\ IsPrefix(activeTracker.logs, activeTracker'.logs)
       /\ IF activeTracker'.current = activeTracker'.target
          THEN /\ Actions(Added(activeTracker, activeTracker')) = <<"increment", "completed">>
               /\ activeTracker'.completedAt # NULL
          ELSE /\ Actions(Added(activeTracker, activeTracker')) = <<"increment">>
               /\ activeTracker'.completedAt = activeTracker.completedAt

\* the log without its archived entry
Core(t) == SelectSeq(t.logs, LAMBDA e : e.action # "archived")

C9_OnlyIncremented(t) ==
    Count(t.logs, "decrement") = 0 =>
       /\ Len(Core(t)) = 1 + t.current + (IF t.current = t.target THEN 1 ELSE 0)
       /\ Core(t)[1].action = "created"
       /\ \A i \in 2..(t.current + 1) : Core(t)[i].action = "increment"
       /\ t.current = t.target => Core(t)[t.target + 2].action = "completed"

C9_Increment ==
    /\ [][C9_Step]_vars
    /\ [](\A i \in 1..Len(TrackerSeq(activeTracker, history)) :
             C9_OnlyIncremented(TrackerSeq(activeTracker, history)[i]))

\* Created with target 2 and incremented twice: four entries.
C9_Witness ==
    /\ IsTracker(activeTracker)
    /\ activeTracker.target = 2
    /\ activeTracker.current = 2
    /\ activeTracker.completedAt # NULL
    /\ Actions(activeTracker.logs) = <<"created", "increment", "increment", "completed">>

\* C10: a decrement above 0 lowers current by one and appends one decrement
\* entry; completedAt becomes null when current was at or above the target,
\* and is left alone otherwise.
C10_Step ==
    (handleDecrement /\ IsTracker(activeTracker) /\ activeTracker.current > 0) =>
       /\ IsTracker(activeTracker')
       /\ activeTracker'.current = activeTracker.current - 1
       /\ activeTracker'.target = activeTracker.target
       /\ IsPrefix(activeTracker.logs, activeTracker'.logs)
       /\ Actions(Added(activeTracker, activeTracker')) = <<"decrement">>
       /\ IF activeTracker.current >= activeTracker.target
          THEN activeTracker'.completedAt = NULL
          ELSE activeTracker'.completedAt = activeTracker.completedAt

C10_Decrement == [][C10_Step]_vars

\* A completed tracker has been decremented once: one below the target,
\* completedAt null, the decrement entry last.
C10_Witness ==
    /\ IsTracker(activeTracker)
    /\ activeTracker.current = activeTracker.target - 1
    /\ activeTracker.completedAt = NULL
    /\ Len(activeTracker.logs) >= 2
    /\ Actions(activeTracker.logs)[Len(activeTracker.logs)] = "decrement"
    /\ Actions(activeTracker.logs)[Len(activeTracker.logs) - 1] = "completed"

\* C11: archive with an active tracker T empties the active slot and puts
\* one new entry at the front of the history: T with archivedAt set to the
\* time of the call and one archived entry behind T's log, every other field
\* of T as it was; the trackers that were in the history follow it, unchanged
\* and in the order they had.
C11_Step ==
    (handleArchive /\ IsTracker(activeTracker)) =>
       /\ activeTracker' = NULL
       /\ Len(history') = Len(history) + 1
       /\ Tail(history') = history
       /\ LET t == Head(history')
          IN  /\ t.archivedAt # NULL
              /\ t.archivedAt = Num(DateNow)
              /\ Len(t.logs) = Len(activeTracker.logs) + 1
              /\ SubSeq(t.logs, 1, Len(activeTracker.logs)) = activeTracker.logs
              /\ t.logs[Len(t.logs)].action = "archived"
              /\ [t EXCEPT !.archivedAt = activeTracker.archivedAt,
                           !.logs = activeTracker.logs] = activeTracker

C11_Archive == [][C11_Step]_vars

\* Two trackers have been archived, the second in front of the first, and
\* none is active.
C11_Witness ==
    /\ activeTracker = NULL
    /\ Len(history) = 2
    /\ history[1].id = 4
    /\ history[2].id = 1
    /\ history[1].archivedAt # NULL
    /\ Actions(history[1].logs) = <<"created", "archived">>

\* C12: a create whose target field holds an integer >= 1 makes the active
\* tracker a new one: an id no tracker and no log entry of the state carries,
\* the target of the field, current 0, completedAt and archivedAt null, and a
\* log of one created entry that reports the label and the target; a label
\* that is empty or white space only becomes the placeholder, any other label
\* is trimmed.
\* What the fields hold, written out for every input of the model: typing
\* "02" gives 2, typing "-1" leaves "1" in the field, which gives 1.
TargetOf(s) ==
    CASE s = <<"0", "2">> -> 2
      [] s = <<"-", "1">> -> 1
      [] OTHER -> 0

LabelOf(l) == IF l = <<" ", "A", " ">> THEN <<"A">> ELSE <<"T", "r", "a", "c", "k", "e", "r">>

LogIds(trackers) ==
    UNION { {trackers[i].logs[j].id : j \in 1..Len(trackers[i].logs)} : i \in 1..Len(trackers) }

C12_Step ==
    activeTracker' # activeTracker =>
       \A l \in LabelInputs, s \in TargetInputs :
          handleCreate(l, s) =>
             /\ TargetOf(s) >= 1
             /\ IsTracker(activeTracker')
             /\ activeTracker'.target = TargetOf(s)
             /\ activeTracker'.label = LabelOf(l)
             /\ activeTracker'.current = 0
             /\ activeTracker'.completedAt = NULL
             /\ activeTracker'.archivedAt = NULL
             /\ Actions(activeTracker'.logs) = <<"created">>
             /\ activeTracker'.logs[1].detail.label = LabelOf(l)
             /\ activeTracker'.logs[1].detail.target = TargetOf(s)
             /\ \A i \in 1..Len(TrackerSeq(activeTracker, history)) :
                    TrackerSeq(activeTracker, history)[i].id # activeTracker'.id
             /\ activeTracker'.id \notin LogIds(TrackerSeq(activeTracker, history))
             /\ activeTracker'.logs[1].id # activeTracker'.id
             /\ history' = history

C12_Create == [][C12_Step]_vars

\* A tracker has just been created with the placeholder label and target 2,
\* while another tracker is in the history.
C12_Witness ==
    /\ IsTracker(activeTracker)
    /\ activeTracker.label = <<"T", "r", "a", "c", "k", "e", "r">>
    /\ activeTracker.target = 2
    /\ activeTracker.current = 0
    /\ Len(activeTracker.logs) = 1
    /\ activeTracker.id = nextUid - 2
    /\ history # <<>>

\* C13: a rejected call changes nothing: create with a target field that
\* holds no integer >= 1, increment with no active tracker or with current >=
\* target, decrement with no active tracker or with current = 0, and archive
\* with no active tracker leave the active tracker and the history as they
\* were.  Said of the states as well: no step other than an import raises the
\* current of a tracker that is at its target or lowers the current of a
\* tracker that is at 0, and no step other than an import puts a tracker into
\* the history while none is active.
Untouched == activeTracker' = activeTracker /\ history' = history

C13_Rejected ==
    /\ \A l \in LabelInputs, s \in TargetInputs :
           (TargetOf(s) < 1 /\ handleCreate(l, s)) => Untouched
    /\ (handleIncrement
           /\ (~IsTracker(activeTracker) \/ activeTracker.current >= activeTracker.target))
          => Untouched
    /\ (handleDecrement /\ (~IsTracker(activeTracker) \/ activeTracker.current = 0))
          => Untouched
    /\ (handleArchive /\ ~IsTracker(activeTracker)) => Untouched
    /\ (~onload /\ IsTracker(activeTracker) /\ IsTracker(activeTracker')
           /\ activeTracker'.id = activeTracker.id) =>
          /\ activeTracker.current >= activeTracker.target =>
                 activeTracker'.current <= activeTracker.current
          /\ activeTracker.current = 0 => activeTracker'.current >= 0
          /\ activeTracker'.current = activeTracker.current =>
                 activeTracker' = activeTracker
    /\ (~onload /\ ~IsTracker(activeTracker)) => Len(history') <= Len(history)

C13_Step == Untouched \/ C13_Rejected

C13_RejectedCallsChangeNothing == [][C13_Step]_vars

\* A tracker is at its target of 1, where increment is rejected, and the
\* history holds a tracker at 0 that has never been decremented.
C13_Witness ==
    /\ IsTracker(activeTracker)
    /\ activeTracker.target = 1
    /\ activeTracker.current = 1
    /\ Actions(activeTracker.logs) = <<"created", "increment", "completed">>
    /\ Len(history) >= 1
    /\ history[1].current = 0
    /\ Count(history[1].logs, "decrement") = 0

\* C14: a create that succeeds while a tracker is active puts the new
\* tracker into the active slot and leaves the history as it was: the tracker
\* that was active is, after the step, neither active nor in the history.
C14_Step ==
    (activeTracker' # activeTracker /\ IsTracker(activeTracker)) =>
       \A l \in LabelInputs, s \in TargetInputs :
          handleCreate(l, s) =>
             /\ history' = history
             /\ IsTracker(activeTracker')
             /\ activeTracker'.id # activeTracker.id
             /\ \A i \in 1..Len(history') :
                    history'[i] # activeTracker /\ history'[i].id # activeTracker.id

C14_CreateOverwrites == [][C14_Step]_vars

\* Tracker 3 is active and nothing is archived: uid 3 went to a tracker, so
\* tracker 1 was still active, untouched, when the second create replaced it.
C14_Witness ==
    /\ IsTracker(activeTracker)
    /\ activeTracker.id = 3
    /\ history = <<>>
    /\ nextUid = 5

\* C15, as claimed: in the whole program, import included, a tracker whose
\* archivedAt is non-null, in the history or in the active slot, is the same
\* value after every step, wherever its id is still found.
Archived(t) == t.archivedAt # NULL

SameWhereFound(t, trackers) ==
    \A j \in 1..Len(trackers) : trackers[j].id = t.id => trackers[j] = t

IdsOf(h) == {h[i].id : i \in 1..Len(h)}

C16_Step ==
    \A id \in IdsOf(history) \cup {0} :
       handleDeleteHistory(id) =>
          /\ history' = SelectSeq(history, LAMBDA t : t.id # id)
          /\ id \notin IdsOf(history')
          /\ Len(history') =
                Len(history) - Cardinality({i \in 1..Len(history) : history[i].id = id})
          /\ id \notin IdsOf(history) => history' = history
          /\ activeTracker' = activeTracker

C16_Remove == [][C16_Step]_vars

\* Of an imported history of three, the two trackers of id 12, which stood
\* around the tracker of id 13, have been deleted in one step.
C16_Witness ==
    /\ Len(history) = 1
    /\ history[1].id = 13
    /\ activeTracker = UNDEFINED

\* C17: every increment, decrement and archive works on the tracker the
\* step before it left: the tracker it produces has the same id, label,
\* target and createdAt, its log is the log of the tracker before the step
\* with the new entries behind it, its current differs by the increment
\* entries minus the decrement entries the step added, which are one
\* increment, one decrement and none, and the last progress entry reports the
\* new current.  So k increments in a row from current = c with c + k <=
\* target give current = c + k and k more increment entries.
Derived(old, new, incs, decs) ==
    /\ new.id = old.id
    /\ new.label = old.label
    /\ new.target = old.target
    /\ new.createdAt = old.createdAt
    /\ IsPrefix(old.logs, new.logs)
    /\ Count(new.logs, "increment") = Count(old.logs, "increment") + incs
    /\ Count(new.logs, "decrement") = Count(old.logs, "decrement") + decs
    /\ new.current = old.current + incs - decs
    /\ \A i \in (Len(old.logs) + 1)..Len(new.logs) :
          new.logs[i].action \in {"increment", "decrement"} =>
             new.logs[i].detail.current = new.current

C17_Step ==
    activeTracker' = activeTracker \/ ~IsTracker(activeTracker) \/
       /\ handleIncrement =>
             IsTracker(activeTracker') /\ Derived(activeTracker, activeTracker', 1, 0)
       /\ handleDecrement =>
             IsTracker(activeTracker') /\ Derived(activeTracker, activeTracker', 0, 1)
       /\ handleArchive =>
             history' # <<>> /\ Derived(activeTracker, Head(history'), 0, 0)

FileHistory(f) ==
    IF f.history = ABSENT \/ f.history = NULL THEN <<>> ELSE f.history.items

C18_Step ==
    /\ (reading = ABSENT /\ reading' # ABSENT) => Untouched
    /\ readFails => Untouched
    /\ (reading # ABSENT /\ reading' # ABSENT) => reading' = reading
    /\ onload =>
          /\ reading' = ABSENT
          /\ \/ error' = "Invalid file" /\ Untouched
             \/ /\ error' = ""
                /\ reading.json
                /\ activeTracker' = Prop(reading.activeTracker)
                /\ history' = FileHistory(reading)

C18_ImportOncePerRead == [][C18_Step]_vars

\* Tracker 1 was exported with its one entry, uid 3 was drawn by the engine
\* while the file was read, and the completed read has put the tracker back as
\* the file holds it.
C18_Witness ==
    /\ IsTracker(activeTracker)
    /\ activeTracker.id = 1
    /\ Len(activeTracker.logs) = 1
    /\ history = <<>>
    /\ nextUid = 4
    /\ reading = ABSENT

\* C19, as claimed: after every step both keys hold the state in full, a
\* restart on the store as it was written loads the active tracker and the
\* history that were in memory, and a key that is absent or no JSON loads as
\* null or as the empty history, whatever the other key holds.
Stored ==
    /\ pt_history = Item(TRUE, Arr(history))
    /\ IF activeTracker = UNDEFINED
       THEN pt_active # ABSENT /\ ~pt_active.json
       ELSE pt_active = Item(TRUE, activeTracker)

LogAgrees(t) ==
    /\ t.current = Count(t.logs, "increment") - Count(t.logs, "decrement")
    /\ (t.completedAt # NULL) <=>
          (Core(t) # <<>> /\ Core(t)[Len(Core(t))].action = "completed")

C20_LogAgreesWithCounter ==
    \A i \in 1..Len(TrackerSeq(activeTracker, history)) :
       LogAgrees(TrackerSeq(activeTracker, history)[i])

\* A tracker was completed, decremented and archived: current 0, completedAt
\* null, one increment and one decrement in its log.
C20_Witness ==
    /\ history # <<>>
    /\ Actions(history[1].logs) =
          <<"created", "increment", "completed", "decrement", "archived">>
    /\ history[1].current = 0
    /\ history[1].completedAt = NULL

\* C21: in every state that create, increment, decrement, archive and
\* history-delete reach without import, the active tracker has archivedAt
\* null, a log whose first entry is its only created entry and no archived
\* entry; every tracker of the history has archivedAt non-null and a log
\* whose last entry is its only archived entry (and whose first is its only
\* created entry); and no tracker id is both active and in the history, or
\* twice in the history.
CreatedFirstOnly(t) ==
    /\ t.logs # <<>>
    /\ t.logs[1].action = "created"
    /\ Count(t.logs, "created") = 1

ActiveShape(t) ==
    /\ t.archivedAt = NULL
    /\ CreatedFirstOnly(t)
    /\ Count(t.logs, "archived") = 0

HistoryShape(t) ==
    /\ t.archivedAt # NULL
    /\ CreatedFirstOnly(t)
    /\ t.logs[Len(t.logs)].action = "archived"
    /\ Count(t.logs, "archived") = 1

C21_LogShapeAndOwnership ==
    /\ IsTracker(activeTracker) => ActiveShape(activeTracker)
    /\ \A i \in 1..Len(history) : HistoryShape(history[i])
    /\ \A i \in 1..Len(history) :
          ~(IsTracker(activeTracker) /\ activeTracker.id = history[i].id)
    /\ \A i \in 1..Len(history), j \in 1..Len(history) :
          i # j => history[i].id # history[j].id

\* Tracker 1 was incremented and archived, tracker 5 is active with its one
\* created entry: two ids, one in each place.
C21_Witness ==
    /\ IsTracker(activeTracker)
    /\ activeTracker.id = 5
    /\ Actions(activeTracker.logs) = <<"created">>
    /\ Len(history) = 1
    /\ history[1].id = 1
    /\ Actions(history[1].logs) = <<"created", "increment", "archived">>
====
